---- MODULE Spec2Model ----
(***************************************************************************)
(* Model of the ward map of the Delhi air-quality dashboard                *)
(* (src/components/MapView.jsx, with the props App.jsx hands to it).       *)
(* Spec follows MapView under every sequence of prop changes, with the     *)
(* rest of App's state held still behind the props.  SpecApp follows App's *)
(* fetching (responses, failures, retry, the poll interval, the slider),   *)
(* SpecPanel its selection (clicks on the map and on the leaderboard, the  *)
(* details requests, the panel), SpecLive the ward fetching under fair     *)
(* scheduling while no request fails, SpecReport the form of ReportModal.  *)
(* All five share Init and the handlers; each takes the steps of one part  *)
(* of the user's and the network's behaviour.                              *)
(*                                                                         *)
(* Representation of JavaScript values                                     *)
(*   numbers     [t |-> "num", v |-> n]          (Num(n))                  *)
(*   strings     [t |-> "str", v |-> <<codes>>]  (Str(s)), a sequence of   *)
(*               UTF-16 code units, so that String(), charCodeAt and       *)
(*               startsWith act on characters                              *)
(*   strings whose characters no code reads (names)                        *)
(*               [t |-> "text", s |-> "..."]     (Text(s))                 *)
(*   undefined / null / NaN   Undef / Null / NaN                           *)
(* Coordinates are integers in units of 1e-4 degree, measured from         *)
(* (28.70 N, 77.10 E); a point is a fraction pair lat/den, lon/den, so     *)
(* that the mean of a ring is exact.  AQI readings are whole numbers;      *)
(* pollutant readings are in hundredths of their unit, the precision the   *)
(* click handler rounds to.  The floating-point sums of the code are       *)
(* modelled by exact fractions.                                            *)
(***************************************************************************)
EXTENDS Integers, Sequences, FiniteSets, TLC

VARIABLES
    wards,              \* prop wards (App state)
    trafficReduction,   \* prop trafficReduction (App state)
    selectedWard,       \* prop selectedWard (App state, set by onWardClick)
    stations,           \* useState([])
    geoJsonData,        \* useState(null): Null or the sequence of features
    selectedFeatureId,  \* useState(null)
    style,              \* what getFeatureStyle returned per feature, last render
    layer,              \* the mounted <GeoJSON> layer: key and bound closures
    inFlight,           \* the requests sent and not yet answered
    wardsFor,           \* the traffic reduction of the request that wards answers
    wardDetails,        \* useState(null) of App
    isDetailsPanelOpen, \* useState(false) of App
    error,              \* useState(null) of App
    isLoading,          \* useState(true) of App
    lastUpdated,        \* useState(null) of App
    formData,           \* useState of ReportModal; Null while the modal is not mounted
    locating            \* the getCurrentPosition callbacks not yet called: the
                        \* formData each of them closes over

\* App's state that is no prop of MapView, and ReportModal's
appVars == <<wardDetails, isDetailsPanelOpen, error, isLoading, lastUpdated>>
reportVars == <<formData, locating>>

vars == <<wards, trafficReduction, selectedWard, stations, geoJsonData,
          selectedFeatureId, style, layer, inFlight, wardsFor, appVars, reportVars>>

----------------------------------------------------------------------------
(* JavaScript values *)

Num(n) == [t |-> "num", v |-> n]
Str(s) == [t |-> "str", v |-> s]
Text(s) == [t |-> "text", s |-> s]
Undef == [t |-> "undefined"]
Null == [t |-> "null"]
NaN == [t |-> "nan"]
Throw == [t |-> "TypeError"]

IsNum(x) == x.t = "num"

\* ToBoolean: 0, NaN, "", null and undefined are falsy
Truthy(x) ==
    CASE x.t = "num" -> x.v # 0
      [] x.t = "str" -> Len(x.v) > 0
      [] x.t = "text" -> x.s # ""
      [] OTHER -> FALSE

RECURSIVE Digits(_)
Digits(n) == IF n < 10 THEN <<48 + n>> ELSE Digits(n \div 10) \o <<48 + (n % 10)>>

\* String(x), as a sequence of code units
JsString(x) ==
    CASE x.t = "num" -> Digits(x.v)
      [] x.t = "str" -> x.v
      [] x.t = "null" -> <<110, 117, 108, 108>>
      [] x.t = "nan" -> <<78, 97, 78>>
      [] OTHER -> <<117, 110, 100, 101, 102, 105, 110, 101, 100>>

RECURSIVE Gcd(_, _)
Gcd(a, b) == IF b = 0 THEN a ELSE Gcd(b, a % b)

Lcm(a, b) == (a \div Gcd(a, b)) * b

Max(a, b) == IF a >= b THEN a ELSE b

\* Math.round(n / d) for n >= 0, d > 0: halves go up
RoundDiv(n, d) == (2 * n + d) \div (2 * d)

----------------------------------------------------------------------------
(* Constants of the program *)

DELHI_FALLBACK == [t |-> "point", lat |-> 41, lon |-> 25, den |-> 1]   \* (28.7041, 77.1025)
EPSILON == 10000            \* 0.0001 square degrees, in square units
DEFAULT_AQI == 180
TRAFFIC_SHARE == 40         \* 0.40, in hundredths
pollutantKeys == <<"pm25", "pm10", "no2", "so2", "co", "o3">>

----------------------------------------------------------------------------
(* Pure functions of MapView.jsx *)

\* mutant: the upper bound of a band belongs to the next band
getAqiHexColor_Exclusive(aqi) ==
    LET n == IF aqi.t = "num" THEN aqi.v ELSE 0
    IN  IF aqi.t \notin {"num", "null"} THEN "#881337"
        ELSE IF n < 50 THEN "#22c55e"
        ELSE IF n < 100 THEN "#eab308"
        ELSE IF n < 150 THEN "#f97316"
        ELSE IF n < 200 THEN "#ef4444"
        ELSE IF n < 300 THEN "#a855f7"
        ELSE "#881337"

\* getAqiHexColor: every comparison with NaN is false, null compares as 0
getAqiHexColor(aqi) ==
    LET n == IF aqi.t = "num" THEN aqi.v ELSE 0
    IN  IF aqi.t \notin {"num", "null"} THEN "#881337"
        ELSE IF n <= 50 THEN "#22c55e"
        ELSE IF n <= 100 THEN "#eab308"
        ELSE IF n <= 150 THEN "#f97316"
        ELSE IF n <= 200 THEN "#ef4444"
        ELSE IF n <= 300 THEN "#a855f7"
        ELSE "#881337"

\* DetailsPanel: getAqiColor
getAqiColor(aqi) ==
    LET n == IF aqi.t = "num" THEN aqi.v ELSE 0
    IN  IF aqi.t \notin {"num", "null"} THEN "#881337"
        ELSE IF n <= 50 THEN "#22c55e"
        ELSE IF n <= 100 THEN "#eab308"
        ELSE IF n <= 150 THEN "#f97316"
        ELSE IF n <= 200 THEN "#ef4444"
        ELSE IF n <= 300 THEN "#a855f7"
        ELSE "#881337"

\* DetailsPanel: getAqiLabel
getAqiLabel(aqi) ==
    LET n == IF aqi.t = "num" THEN aqi.v ELSE 0
    IN  IF aqi.t \notin {"num", "null"} THEN "Severe"
        ELSE IF n <= 50 THEN "Good"
        ELSE IF n <= 100 THEN "Satisfactory"
        ELSE IF n <= 150 THEN "Moderate"
        ELSE IF n <= 200 THEN "Poor"
        ELSE IF n <= 300 THEN "Very Poor"
        ELSE "Severe"

\* Sidebar: getAqiColor
Sidebar_getAqiColor(aqi) ==
    LET n == IF aqi.t = "num" THEN aqi.v ELSE 0
    IN  IF aqi.t \notin {"num", "null"} THEN "#881337"
        ELSE IF n <= 50 THEN "#22c55e"
        ELSE IF n <= 100 THEN "#eab308"
        ELSE IF n <= 150 THEN "#f97316"
        ELSE IF n <= 200 THEN "#ef4444"
        ELSE IF n <= 300 THEN "#a855f7"
        ELSE "#881337"

\* feature.properties?.[key]
Prop(feature, key) ==
    IF feature.properties.t = "object" THEN feature.properties[key] ELSE Undef

\* wards.find(w => String(w.ward_no) === wardNo): the first hit, or undefined
FindWard(ws, wardNo) ==
    LET hit(i) == JsString(ws[i].ward_no) = wardNo
    IN  IF \E i \in 1..Len(ws) : hit(i)
        THEN ws[CHOOSE i \in 1..Len(ws) : hit(i) /\ \A j \in 1..(i - 1) : ~hit(j)]
        ELSE Undef

\* mutant: the first ward stands in when no number matches
findWardForFeature_Positional(feature, ws) ==
    IF Len(ws) = 0 THEN Null
    ELSE IF feature.properties.t = "object" /\ Truthy(feature.properties.Ward_No)
            /\ FindWard(ws, JsString(feature.properties.Ward_No)) # Undef
    THEN FindWard(ws, JsString(feature.properties.Ward_No))
    ELSE ws[1]

findWardForFeature(feature, ws) ==
    IF Len(ws) = 0 THEN Null
    ELSE IF feature.properties.t = "object" /\ Truthy(feature.properties.Ward_No)
    THEN LET matchedWard == FindWard(ws, JsString(feature.properties.Ward_No))
         IN  IF matchedWard # Undef THEN matchedWard ELSE Null
    ELSE Null

RECURSIVE SumAt(_, _, _)
SumAt(coords, k, i) ==
    IF i > Len(coords) THEN 0 ELSE coords[i][k] + SumAt(coords, k, i + 1)

\* the ring getFeatureCentroid reads: coordinates[0][0] of a MultiPolygon,
\* coordinates[0] otherwise; Undef where the index is out of range, Throw
\* where the code indexes undefined
SelectedRing(geometry) ==
    IF geometry.type = "MultiPolygon"
    THEN IF Len(geometry.coordinates) = 0 THEN Throw
         ELSE IF Len(geometry.coordinates[1]) = 0 THEN Undef
         ELSE [t |-> "array", v |-> geometry.coordinates[1][1]]
    ELSE IF Len(geometry.coordinates) = 0 THEN Undef
         ELSE [t |-> "array", v |-> geometry.coordinates[1]]

\* mutant: c[0] taken for the latitude and c[1] for the longitude
getFeatureCentroid_Swapped(feature) ==
    IF feature.geometry = Null THEN Null
    ELSE LET coords == SelectedRing(feature.geometry)
         IN  IF coords = Throw THEN Throw
             ELSE IF coords = Undef THEN Null
             ELSE IF Len(coords.v) = 0 THEN Null
             ELSE [t |-> "point",
                   lat |-> SumAt(coords.v, 1, 1),
                   lon |-> SumAt(coords.v, 2, 1),
                   den |-> Len(coords.v)]

\* a vertex is <<lon, lat>>; the result is the point sumLat/n, sumLon/n
getFeatureCentroid(feature) ==
    IF feature.geometry = Null THEN Null
    ELSE LET coords == SelectedRing(feature.geometry)
         IN  IF coords = Throw THEN Throw
             ELSE IF coords = Undef THEN Null
             ELSE IF Len(coords.v) = 0 THEN Null
             ELSE [t |-> "point",
                   lat |-> SumAt(coords.v, 2, 1),
                   lon |-> SumAt(coords.v, 1, 1),
                   den |-> Len(coords.v)]

\* mutant: the floor is 0.001 instead of 0.0001
Weight_WideFloor(station, centroid) ==
    LET dLat == station.lat * centroid.den - centroid.lat
        dLon == station.lon * centroid.den - centroid.lon
        q == centroid.den * centroid.den
        m == Max(dLat * dLat + dLon * dLon, 10 * EPSILON * q)
        g == Gcd(q, m)
    IN  [n |-> q \div g, d |-> m \div g]

\* 1 / Math.max(dist * dist, 0.0001) as a fraction n/d in lowest terms
Weight(station, centroid) ==
    LET dLat == station.lat * centroid.den - centroid.lat
        dLon == station.lon * centroid.den - centroid.lon
        q == centroid.den * centroid.den
        m == Max(dLat * dLat + dLon * dLon, EPSILON * q)
        g == Gcd(q, m)
    IN  [n |-> q \div g, d |-> m \div g]

\* weightSum += weight; valueSum += weight * value, both kept over one
\* denominator; nan records a valueSum that has become NaN
AddTerm(acc, w, value) ==
    LET l == Lcm(acc.den, w.d)
        k == l \div acc.den
        wn == w.n * (l \div w.d)
    IN  [den |-> l,
         weightSum |-> acc.weightSum * k + wn,
         valueSum |-> IF value.t = "num" THEN acc.valueSum * k + wn * value.v
                      ELSE acc.valueSum * k,
         nan |-> acc.nan \/ value.t \notin {"num", "null"}]

ZeroSums == [den |-> 1, weightSum |-> 0, valueSum |-> 0, nan |-> FALSE]

\* mutant: a station counts the more the later it comes in the list
RECURSIVE AqiSums_Ranked(_, _, _)
AqiSums_Ranked(sts, centroid, i) ==
    IF i = 0 THEN ZeroSums
    ELSE AddTerm(AqiSums_Ranked(sts, centroid, i - 1),
                 [n |-> i * Weight(sts[i], centroid).n, d |-> Weight(sts[i], centroid).d],
                 sts[i].aqi)

\* stations.forEach of getInterpolatedAqi: every station is weighed, whatever
\* its aqi (weight * null is 0, weight * undefined is NaN)
RECURSIVE AqiSums(_, _, _)
AqiSums(sts, centroid, i) ==
    IF i = 0 THEN ZeroSums
    ELSE AddTerm(AqiSums(sts, centroid, i - 1), Weight(sts[i], centroid), sts[i].aqi)

\* mutant: the traffic share of the placeholder breakdown (30) is used
ApplyTrafficReduction_Share30(rawAqi, reduction) ==
    IF reduction > 0
    THEN IF rawAqi.t = "num"
         THEN Num(RoundDiv(rawAqi.v * (10000 - 30 * reduction), 10000))
         ELSE NaN
    ELSE rawAqi

\* mutant: the scenario raises the value by the traffic share
ApplyTrafficReduction_Raised(rawAqi, reduction) ==
    IF reduction > 0
    THEN IF rawAqi.t = "num"
         THEN Num(RoundDiv(rawAqi.v * (10000 + TRAFFIC_SHARE * reduction), 10000))
         ELSE NaN
    ELSE rawAqi

\* the traffic-reduction step at the end of getInterpolatedAqi; for the
\* reductions 50 and 100 the product is never half-way between two integers,
\* so the exact fraction rounds as the double does
ApplyTrafficReduction(rawAqi, reduction) ==
    IF reduction > 0
    THEN IF rawAqi.t = "num"
         THEN Num(RoundDiv(rawAqi.v * (10000 - TRAFFIC_SHARE * reduction), 10000))
         ELSE NaN
    ELSE rawAqi

InterpolateRawAqi(sts, centroid) ==
    LET sums == AqiSums(sts, centroid, Len(sts))
    IN  IF sums.weightSum > 0
        THEN IF sums.nan THEN NaN ELSE Num(RoundDiv(sums.valueSum, sums.weightSum))
        ELSE Num(DEFAULT_AQI)

getInterpolatedAqi(feature, sts, reduction) ==
    IF Len(sts) = 0 THEN Num(DEFAULT_AQI)
    ELSE LET centroid == getFeatureCentroid(feature)
         IN  IF centroid = Throw THEN Throw
             ELSE IF centroid = Null THEN Num(DEFAULT_AQI)
             ELSE ApplyTrafficReduction(InterpolateRawAqi(sts, centroid), reduction)

\* mutant: a reading of 0 counts as a reading
Reports_Defined(station, key) == station[key].t = "num"

\* the guard of the pollutant loop: value !== null && value !== undefined && value > 0
Reports(station, key) == station[key].t = "num" /\ station[key].v > 0

RECURSIVE PollutantSums(_, _, _, _)
PollutantSums(sts, key, centroid, i) ==
    IF i = 0 THEN ZeroSums
    ELSE LET rest == PollutantSums(sts, key, centroid, i - 1)
         IN  IF Reports(sts[i], key)
             THEN AddTerm(rest, Weight(sts[i], centroid), sts[i][key])
             ELSE rest

\* mutant: the pollutant mean is rounded to a whole number
InterpolatePollutant_Whole(sts, key, centroid) ==
    LET sums == PollutantSums(sts, key, centroid, Len(sts))
    IN  IF sums.weightSum > 0 THEN Num(100 * RoundDiv(sums.valueSum, 100 * sums.weightSum))
        ELSE Null

\* Math.round(valueSum / weightSum * 100) / 100, in hundredths; else null
InterpolatePollutant(sts, key, centroid) ==
    LET sums == PollutantSums(sts, key, centroid, Len(sts))
    IN  IF sums.weightSum > 0 THEN Num(RoundDiv(sums.valueSum, sums.weightSum))
        ELSE Null

interpolatedPollutants(sts, centroid) ==
    [key \in {pollutantKeys[i] : i \in 1..Len(pollutantKeys)} |->
        InterpolatePollutant(sts, key, centroid)]

RECURSIVE CodeSum(_, _)
CodeSum(s, i) == IF i > Len(s) THEN 0 ELSE s[i] + CodeSum(s, i + 1)

\* mutant: the characters are counted, not summed
wardNoHash_Length(feature) ==
    LET wardNo == Prop(feature, "Ward_No")
    IN  Len(IF Truthy(wardNo) THEN JsString(wardNo) ELSE <<48>>)

\* (Ward_No || '0').toString().split('').reduce((a, c) => a + c.charCodeAt(0), 0)
wardNoHash(feature) ==
    LET wardNo == Prop(feature, "Ward_No")
    IN  CodeSum(IF Truthy(wardNo) THEN JsString(wardNo) ELSE <<48>>, 1)

\* getFeatureStyle; the field aqi is the local aqi the colour is taken from
getFeatureStyle(feature, ws, sts, reduction, selectedId) ==
    LET ward == findWardForFeature(feature, ws)
        aqi == IF ward # Null THEN ward.aqi ELSE getInterpolatedAqi(feature, sts, reduction)
        isSelected == feature.id = selectedId
    IN  IF aqi = Throw THEN Throw
        ELSE [aqi |-> aqi,
              fillColor |-> getAqiHexColor(aqi),
              fillOpacity |-> IF isSelected THEN 8 ELSE 5,
              color |-> IF isSelected THEN "#ffffff" ELSE "rgba(255,255,255,0.3)",
              weight |-> IF isSelected THEN 3 ELSE 1,
              opacity |-> IF isSelected THEN 10 ELSE 3]

\* mutant: the scenario is applied to the matched ward's aqi as well
BindFeature_Adjusted(feature, ws, sts, reduction) ==
    LET ward == findWardForFeature(feature, ws)
        wardName == IF Truthy(Prop(feature, "Ward_Name")) THEN feature.properties.Ward_Name
                    ELSE IF ward # Null /\ Truthy(ward.name) THEN ward.name
                    ELSE Text("Unknown Ward")
        aqi == IF ward # Null THEN ApplyTrafficReduction(ward.aqi, reduction)
               ELSE getInterpolatedAqi(feature, sts, reduction)
    IN  IF aqi = Throw THEN Throw
        ELSE [ward |-> ward,
              wardName |-> wardName,
              aqi |-> aqi,
              color |-> getAqiHexColor(aqi),
              isEstimated |-> ward = Null,
              sourceLabel |-> IF ward # Null THEN ward.dominant_source ELSE ""]

\* mutant: every tooltip is marked estimated
BindFeature_AllEstimated(feature, ws, sts, reduction) ==
    LET ward == findWardForFeature(feature, ws)
        wardName == IF Truthy(Prop(feature, "Ward_Name")) THEN feature.properties.Ward_Name
                    ELSE IF ward # Null /\ Truthy(ward.name) THEN ward.name
                    ELSE Text("Unknown Ward")
        aqi == IF ward # Null THEN ward.aqi ELSE getInterpolatedAqi(feature, sts, reduction)
    IN  IF aqi = Throw THEN Throw
        ELSE [ward |-> ward,
              wardName |-> wardName,
              aqi |-> aqi,
              color |-> getAqiHexColor(aqi),
              isEstimated |-> TRUE,
              sourceLabel |-> IF ward # Null THEN ward.dominant_source ELSE ""]

\* onEachFeature up to bindTooltip: what the tooltip shows and what the
\* click handler closes over
BindFeature(feature, ws, sts, reduction) ==
    LET ward == findWardForFeature(feature, ws)
        wardName == IF Truthy(Prop(feature, "Ward_Name")) THEN feature.properties.Ward_Name
                    ELSE IF ward # Null /\ Truthy(ward.name) THEN ward.name
                    ELSE Text("Unknown Ward")
        aqi == IF ward # Null THEN ward.aqi ELSE getInterpolatedAqi(feature, sts, reduction)
    IN  IF aqi = Throw THEN Throw
        ELSE [ward |-> ward,
              wardName |-> wardName,
              aqi |-> aqi,
              color |-> getAqiHexColor(aqi),
              isEstimated |-> ward = Null,
              sourceLabel |-> IF ward # Null THEN ward.dominant_source ELSE ""]

\* the temporary ward object the click handler builds for an unmatched feature
Placeholder(feature, bound, sts, centroid, now) ==
    LET h == wardNoHash(feature)
    IN  [id |-> feature.id,
         name |-> bound.wardName,
         ward_no |-> IF Truthy(Prop(feature, "Ward_No")) THEN feature.properties.Ward_No
                     ELSE Str(<<78, 47, 65>>),
         aqi |-> bound.aqi,
         dominant_source |-> "Estimated",
         pollution_breakdown |-> [traffic |-> 30, industrial |-> 20,
                                  construction_dust |-> 20, biomass_burning |-> 15,
                                  other |-> 15],
         pollutants |-> interpolatedPollutants(sts, centroid),
         recommendations |-> <<"AQI data estimated from nearby stations",
                               "Wear N95 mask when outdoors",
                               "Limit outdoor activities during peak hours",
                               "Keep windows closed",
                               "Use air purifiers indoors">>,
         coordinates |-> centroid,
         population |-> 80000 + ((h * 1234) % 400000),
         area_sqkm |-> RoundDiv(250 + ((h * 17) % 1200), 10),   \* in tenths
         trend |-> "Stable",
         last_updated |-> now]

----------------------------------------------------------------------------
(* Inputs: what the backend and the GeoJSON file may hold *)

MaxStations == 2
MaxWards == 2
Instants == {1, 2}
TrafficValues == {0, 50, 100}

Reading(aqi, pm25, pm10, no2, so2, co, o3) ==
    [aqi |-> aqi, pm25 |-> pm25, pm10 |-> pm10, no2 |-> no2, so2 |-> so2,
     co |-> co, o3 |-> o3]

Station(lat, lon, r) == [lat |-> lat, lon |-> lon] @@ r

StationPool ==
    << Station(0, 0, Reading(Num(100), Num(4000), Undef, Num(0), Null, Num(120), Undef)),
       Station(100, 100, Reading(Num(300), Num(9050), Num(15000), Num(0), Undef, Null, Undef)),
       Station(0, 100, Reading(Num(60), Undef, Num(8000), Num(2500), Num(900), Num(80), Undef)),
       Station(100, 0, Reading(Undef, Num(6000), Null, Undef, Undef, Num(100), Undef)) >>

Ward(id, wardNo, name, aqi, source) ==
    [id |-> Num(id), ward_no |-> wardNo, name |-> Text(name), aqi |-> Num(aqi),
     dominant_source |-> source]

WardPool ==
    << Ward(1, Num(0), "Civil Lines", 210, "Traffic"),
       Ward(2, Str(<<48>>), "Model Town", 130, "Industrial") >>

\* the sub-sequences of pool with at most max entries
SubSeqs(pool, max) ==
    LET take(S) ==
            LET F[i \in 0..Len(pool)] ==
                    IF i = 0 THEN <<>>
                    ELSE IF i \in S THEN Append(F[i - 1], pool[i]) ELSE F[i - 1]
            IN  F[Len(pool)]
    IN  {take(S) : S \in {T \in SUBSET (1..Len(pool)) : Cardinality(T) <= max}}

StationLists == SubSeqs(StationPool, MaxStations)
WardLists == SubSeqs(WardPool, MaxWards)

Props(wardNo, wardName) == [t |-> "object", Ward_No |-> wardNo, Ward_Name |-> wardName]

Polygon(rings) == [type |-> "Polygon", coordinates |-> rings]
MultiPolygon(parts) == [type |-> "MultiPolygon", coordinates |-> parts]

Feature(id, properties, geometry) ==
    [id |-> id, properties |-> properties, geometry |-> geometry]

SquareRing == << <<0, 0>>, <<0, 2>>, <<2, 2>>, <<2, 0>> >>
BlockRing == << <<0, 0>>, <<100, 0>>, <<100, 100>>, <<0, 100>> >>
HoleRing == << <<40, 40>>, <<60, 40>>, <<60, 80>> >>
FarRing == << <<300, 300>>, <<320, 300>>, <<320, 340>>, <<300, 340>> >>
EastRing == << <<90, -10>>, <<110, -10>>, <<110, 10>>, <<90, 10>> >>

\* the files /Delhi_Wards.geojson may be, as fetched
GeoJsonFiles ==
    { << Feature(Undef, Props(Str(<<48>>), Text("Civil Lines")), Polygon(<<FarRing>>)),
         Feature(Undef, Props(Str(<<48, 48>>), Undef),
                 MultiPolygon(<< <<BlockRing, HoleRing>>, <<FarRing>> >>)),
         Feature(Str(<<119, 51>>), Props(Num(0), Text("Ward Zero")), Polygon(<<SquareRing>>)),
         Feature(Undef, Props(Undef, Undef), Null) >>,
      << Feature(Undef, Props(Str(<<57, 57>>), Text("Ring Road")), MultiPolygon(<<>>)),
         Feature(Undef, Props(Num(7), Undef), Polygon(<<EastRing, HoleRing>>)),
         Feature(Num(12), Null, Polygon(<< <<>> >>)) >> }

----------------------------------------------------------------------------
(* Rendering *)

NoLayer == [mounted |-> FALSE]

\* data.features.map((f, idx) => ({...f, id: f.id || `feature-${idx}`}))
WithIds(features) ==
    [i \in 1..Len(features) |->
        [features[i] EXCEPT !.id =
            IF Truthy(features[i].id) THEN features[i].id
            ELSE Str(<<102, 101, 97, 116, 117, 114, 101, 45>> \o Digits(i - 1))]]

\* geoJsonData && wards.length > 0
LayerShown(geo, ws) == geo # Null /\ Len(ws) > 0

\* key={`geojson-${selectedFeatureId || 'none'}-${wards.length}-${stations.length}`}
LayerKey(selectedId, ws, sts) ==
    <<IF Truthy(selectedId) THEN JsString(selectedId) ELSE <<110, 111, 110, 101>>,
      Len(ws), Len(sts)>>

\* the style prop is applied to every feature on every render
RenderStyle(geo, ws, sts, reduction, selectedId) ==
    IF LayerShown(geo, ws)
    THEN [i \in 1..Len(geo.features) |->
            getFeatureStyle(geo.features[i], ws, sts, reduction, selectedId)]
    ELSE <<>>

\* onEachFeature runs once per feature when the layer is created, and a
\* layer is created anew only when its key changes; wards, stations and
\* trafficReduction are the values the bound callbacks close over
RenderLayer(old, geo, ws, sts, reduction, selectedId) ==
    IF ~LayerShown(geo, ws) THEN NoLayer
    ELSE IF old.mounted /\ old.key = LayerKey(selectedId, ws, sts) THEN old
    ELSE [mounted |-> TRUE,
          key |-> LayerKey(selectedId, ws, sts),
          wards |-> ws,
          stations |-> sts,
          trafficReduction |-> reduction,
          bound |-> [i \in 1..Len(geo.features) |->
                        BindFeature(geo.features[i], ws, sts, reduction)]]

Render ==
    /\ style' = RenderStyle(geoJsonData', wards', stations', trafficReduction',
                            selectedFeatureId')
    /\ layer' = RenderLayer(layer, geoJsonData', wards', stations', trafficReduction',
                            selectedFeatureId')

----------------------------------------------------------------------------
(* The state machine *)

\* fetch('/Delhi_Wards.geojson'), fetch('/api/stations'), and fetchWards:
\* POST /simulate with the reduction when it is positive, GET /wards when 0
GeoJsonRequest == [url |-> "/Delhi_Wards.geojson", reduction |-> 0]
StationsRequest == [url |-> "/api/stations", reduction |-> 0]
WardsRequest(reduction) ==
    [url |-> IF reduction > 0 THEN "/simulate" ELSE "/wards", reduction |-> reduction]

\* the state after App and MapView have mounted and their mount effects
\* have sent the first three requests
Init ==
    /\ wards = <<>>
    /\ trafficReduction = 0
    /\ selectedWard = Null
    /\ stations = <<>>
    /\ geoJsonData = Null
    /\ selectedFeatureId = Null
    /\ style = <<>>
    /\ layer = NoLayer
    /\ inFlight = {GeoJsonRequest, StationsRequest, WardsRequest(0)}
    /\ wardsFor = Null
    /\ wardDetails = Null
    /\ isDetailsPanelOpen = FALSE
    /\ error = Null
    /\ isLoading = TRUE
    /\ lastUpdated = Null
    /\ formData = Null
    /\ locating = {}

\* fetch('/Delhi_Wards.geojson') resolves
GeoJsonLoaded(file) ==
    /\ geoJsonData = Null
    /\ geoJsonData' = [features |-> WithIds(file)]
    /\ UNCHANGED <<wards, trafficReduction, selectedWard, stations, selectedFeatureId>>
    /\ UNCHANGED <<inFlight, wardsFor, appVars, reportVars>>
    /\ Render

\* fetch('/api/stations') resolves: if (data && data.stations) setStations(...)
StationsLoaded(sts) ==
    /\ Len(stations) = 0
    /\ stations' = sts
    /\ UNCHANGED <<wards, trafficReduction, selectedWard, geoJsonData, selectedFeatureId>>
    /\ UNCHANGED <<inFlight, wardsFor, appVars, reportVars>>
    /\ Render

\* the prop wards changes (App: setWards(response.data)); which request the
\* list answers is followed in SpecApp
WardsChanged(ws) ==
    /\ wards' = ws
    /\ UNCHANGED <<trafficReduction, selectedWard, stations, geoJsonData,
                   selectedFeatureId>>
    /\ UNCHANGED <<inFlight, wardsFor, appVars, reportVars>>
    /\ Render

\* the prop trafficReduction changes (App: setTrafficReduction(value)); the
\* request handleTrafficSimulation sends with it is followed in SpecApp
TrafficChanged(value) ==
    /\ trafficReduction' = value
    /\ UNCHANGED <<wards, selectedWard, stations, geoJsonData, selectedFeatureId>>
    /\ UNCHANGED <<inFlight, wardsFor, appVars, reportVars>>
    /\ Render

\* what the click handler bound for a feature hands to onWardClick: the
\* matched ward, or the placeholder built from the closure's aqi and
\* stations; Throw when getFeatureCentroid raises
ClickOutcome(feature, bound, sts, now) ==
    LET centroid == getFeatureCentroid(feature)
    IN  IF bound.ward # Null THEN bound.ward
        ELSE IF centroid = Throw THEN Throw
        ELSE Placeholder(feature, bound, sts,
                         IF centroid = Null THEN DELHI_FALLBACK ELSE centroid,
                         now)

\* layer.on('click'): setSelectedFeatureId, then onWardClick with the matched
\* ward or with the placeholder; App.handleWardClick stores its argument
\* (what else it does to App's state is followed by FeatureClick)
ClickFeature(i, now) ==
    /\ layer.mounted
    /\ i \in 1..Len(layer.bound)
    /\ layer.bound[i] # Throw
    /\ LET feature == geoJsonData.features[i]
           outcome == ClickOutcome(feature, layer.bound[i], layer.stations, now)
       IN  /\ selectedFeatureId' = feature.id
           /\ selectedWard' = IF outcome = Throw THEN selectedWard ELSE outcome
    /\ UNCHANGED <<wards, trafficReduction, stations, geoJsonData>>
    /\ UNCHANGED <<inFlight, wardsFor, appVars, reportVars>>
    /\ Render

\* the prop selectedWard becomes null (App.closeDetailsPanel), and the effect
\* that clears the selected feature then; the panel's own state is followed
\* by closeDetailsPanel
CloseDetailsPanel ==
    /\ selectedWard # Null
    /\ selectedWard' = Null
    /\ selectedFeatureId' = Null
    /\ UNCHANGED <<wards, trafficReduction, stations, geoJsonData>>
    /\ UNCHANGED <<inFlight, wardsFor, appVars, reportVars>>
    /\ Render

Next ==
    \/ \E file \in GeoJsonFiles : GeoJsonLoaded(file)
    \/ \E sts \in StationLists : StationsLoaded(sts)
    \/ \E ws \in WardLists : WardsChanged(ws)
    \/ \E value \in TrafficValues : TrafficChanged(value)
    \/ \E i \in DOMAIN style, now \in Instants : ClickFeature(i, now)
    \/ CloseDetailsPanel

\* MapView under every sequence of prop changes and responses
Spec == Init /\ [][Next]_vars

----------------------------------------------------------------------------
(* App and MapView together: requests, responses, selection, details panel *)

AppFiles == {file \in GeoJsonFiles : Len(file) = 3}
AppStationLists == {sts \in StationLists : Len(sts) = 1}
AppWardLists == {ws \in WardLists : Len(ws) = 1}

\* GET /ward/{id}
WardDetailsRequest(id) == [url |-> "/ward/", id |-> id]

IsWardsRequest(request) == request.url \in {"/wards", "/simulate"}

\* what GET /ward/{id} answers for a ward the backend lists: the details
\* carry the ward's id
WardDetails(id) == CHOOSE w \in {WardPool[k] : k \in 1..Len(WardPool)} : w.id = id

\* typeof ward.id === 'string' && ward.id.startsWith('feature-')
IsFeatureId(id) ==
    /\ id.t = "str"
    /\ Len(id.v) >= 8
    /\ SubSeq(id.v, 1, 8) = <<102, 101, 97, 116, 117, 114, 101, 45>>

TOP_WARDS == 5

\* [...ws].sort((a, b) => b.aqi - a.aqi), the first i wards sorted (stable)
RECURSIVE SortedByAqi(_, _)
SortedByAqi(ws, i) ==
    IF i = 0 THEN <<>>
    ELSE LET rest == SortedByAqi(ws, i - 1)
             ahead == Cardinality({k \in 1..Len(rest) : rest[k].aqi.v >= ws[i].aqi.v})
         IN  SubSeq(rest, 1, ahead) \o <<ws[i]>> \o SubSeq(rest, ahead + 1, Len(rest))

\* the leaderboard of the sidebar: .slice(0, 5) of the sorted list
topPollutedWards(ws) ==
    LET sorted == SortedByAqi(ws, Len(ws))
    IN  SubSeq(sorted, 1, IF Len(sorted) < TOP_WARDS THEN Len(sorted) ELSE TOP_WARDS)

\* the geojson response: ids are added and setGeoJsonData is called
GeoJsonResponse(file) ==
    /\ GeoJsonRequest \in inFlight
    /\ inFlight' = inFlight \ {GeoJsonRequest}
    /\ geoJsonData' = [features |-> WithIds(file)]
    /\ UNCHANGED <<wards, trafficReduction, selectedWard, stations, selectedFeatureId,
                   wardsFor, appVars, reportVars>>
    /\ Render

\* the stations response: setStations(data.stations)
StationsResponse(sts) ==
    /\ StationsRequest \in inFlight
    /\ inFlight' = inFlight \ {StationsRequest}
    /\ stations' = sts
    /\ UNCHANGED <<wards, trafficReduction, selectedWard, geoJsonData, selectedFeatureId,
                   wardsFor, appVars, reportVars>>
    /\ Render

\* mutant: a successful fetch leaves the error message standing
WardsResponse_KeepsError(reduction, ws, now) ==
    /\ WardsRequest(reduction) \in inFlight
    /\ inFlight' = inFlight \ {WardsRequest(reduction)}
    /\ wards' = ws
    /\ wardsFor' = Num(reduction)
    /\ lastUpdated' = Num(now)
    /\ isLoading' = FALSE
    /\ UNCHANGED <<trafficReduction, selectedWard, stations, geoJsonData,
                   selectedFeatureId, wardDetails, isDetailsPanelOpen, error, reportVars>>
    /\ Render

\* fetchWards(reduction) succeeds: setWards(response.data),
\* setLastUpdated(now), setError(null), and setIsLoading(false) in finally
WardsResponse(reduction, ws, now) ==
    /\ WardsRequest(reduction) \in inFlight
    /\ inFlight' = inFlight \ {WardsRequest(reduction)}
    /\ wards' = ws
    /\ wardsFor' = Num(reduction)
    /\ lastUpdated' = Num(now)
    /\ error' = Null
    /\ isLoading' = FALSE
    /\ UNCHANGED <<trafficReduction, selectedWard, stations, geoJsonData,
                   selectedFeatureId, wardDetails, isDetailsPanelOpen, reportVars>>
    /\ Render

\* a request fails: every catch branch logs; the one of fetchWards also sets
\* error, and its finally sets isLoading to false; no list changes
RequestFailed(request) ==
    /\ request \in inFlight
    /\ inFlight' = inFlight \ {request}
    /\ IF IsWardsRequest(request)
       THEN /\ error' = Text("Failed to connect to backend. Make sure the server is running.")
            /\ isLoading' = FALSE
       ELSE UNCHANGED <<error, isLoading>>
    /\ UNCHANGED <<wards, trafficReduction, selectedWard, stations, geoJsonData,
                   selectedFeatureId, style, layer, wardsFor, wardDetails,
                   isDetailsPanelOpen, lastUpdated, reportVars>>

\* the button of the error overlay: setError(null); setIsLoading(true); fetchWards()
RetryConnection ==
    /\ error # Null
    /\ error' = Null
    /\ isLoading' = TRUE
    /\ inFlight' = inFlight \cup {WardsRequest(0)}
    /\ UNCHANGED <<wards, trafficReduction, selectedWard, stations, geoJsonData,
                   selectedFeatureId, style, layer, wardsFor, wardDetails,
                   isDetailsPanelOpen, lastUpdated, reportVars>>

\* mutant: the interval keeps the reduction of the first render
PollTick_FirstRender ==
    /\ inFlight' = inFlight \cup {WardsRequest(0)}
    /\ UNCHANGED <<wards, trafficReduction, selectedWard, stations, geoJsonData,
                   selectedFeatureId, style, layer, wardsFor, appVars, reportVars>>

\* the 30-second interval fires: fetchWards(trafficReduction) and fetchStats()
PollTick ==
    /\ inFlight' = inFlight \cup {WardsRequest(trafficReduction)}
    /\ UNCHANGED <<wards, trafficReduction, selectedWard, stations, geoJsonData,
                   selectedFeatureId, style, layer, wardsFor, appVars, reportVars>>

\* handleTrafficSimulation: setTrafficReduction(value); fetchWards(value)
HandleTrafficSimulation(value) ==
    /\ trafficReduction' = value
    /\ inFlight' = inFlight \cup {WardsRequest(value)}
    /\ UNCHANGED <<wards, selectedWard, stations, geoJsonData, selectedFeatureId,
                   wardsFor, appVars, reportVars>>
    /\ Render

\* App.handleWardClick: the clicked ward is selected and the panel opened; a
\* ward whose id starts with 'feature-' is its own details, for any other
\* the details are requested
handleWardClick(ward) ==
    /\ selectedWard' = ward
    /\ isDetailsPanelOpen' = TRUE
    /\ IF IsFeatureId(ward.id)
       THEN /\ wardDetails' = ward
            /\ inFlight' = inFlight
       ELSE /\ wardDetails' = wardDetails
            /\ inFlight' = inFlight \cup {WardDetailsRequest(ward.id)}

\* layer.on('click') with App's handler behind onWardClick; the loading and
\* the error overlay lie over the map while they are shown
FeatureClick(i, now) ==
    /\ ~isLoading
    /\ error = Null
    /\ layer.mounted
    /\ i \in 1..Len(layer.bound)
    /\ layer.bound[i] # Throw
    /\ LET feature == geoJsonData.features[i]
           outcome == ClickOutcome(feature, layer.bound[i], layer.stations, now)
       IN  /\ selectedFeatureId' = feature.id
           /\ IF outcome = Throw
              THEN UNCHANGED <<selectedWard, isDetailsPanelOpen, wardDetails, inFlight>>
              ELSE handleWardClick(outcome)
    /\ UNCHANGED <<wards, trafficReduction, stations, geoJsonData, wardsFor, error,
                   isLoading, lastUpdated, reportVars>>
    /\ Render

\* a button of the sidebar's leaderboard: onWardClick(ward)
LeaderboardClick(k) ==
    /\ k \in 1..Len(topPollutedWards(wards))
    /\ handleWardClick(topPollutedWards(wards)[k])
    /\ UNCHANGED <<wards, trafficReduction, stations, geoJsonData, selectedFeatureId,
                   wardsFor, error, isLoading, lastUpdated, reportVars>>
    /\ Render

\* the details request is answered: setWardDetails(response.data)
WardDetailsResponse(id) ==
    /\ WardDetailsRequest(id) \in inFlight
    /\ \E k \in 1..Len(WardPool) : WardPool[k].id = id
    /\ inFlight' = inFlight \ {WardDetailsRequest(id)}
    /\ wardDetails' = WardDetails(id)
    /\ UNCHANGED <<wards, trafficReduction, selectedWard, stations, geoJsonData,
                   selectedFeatureId, style, layer, wardsFor, isDetailsPanelOpen,
                   error, isLoading, lastUpdated, reportVars>>

\* onClose of the details panel, which is rendered while isDetailsPanelOpen
\* && wardDetails: App.closeDetailsPanel, and MapView's effect that clears
\* the selected feature when selectedWard becomes null
closeDetailsPanel ==
    /\ isDetailsPanelOpen
    /\ wardDetails # Null
    /\ isDetailsPanelOpen' = FALSE
    /\ selectedWard' = Null
    /\ wardDetails' = Null
    /\ selectedFeatureId' = Null
    /\ UNCHANGED <<wards, trafficReduction, stations, geoJsonData, inFlight, wardsFor,
                   error, isLoading, lastUpdated, reportVars>>
    /\ Render

\* App while the user moves the slider and retries, and requests succeed or
\* fail
NextApp ==
    \/ \E file \in AppFiles : GeoJsonResponse(file)
    \/ \E sts \in AppStationLists : StationsResponse(sts)
    \/ \E reduction \in TrafficValues, ws \in AppWardLists, now \in Instants :
          WardsResponse(reduction, ws, now)
    \/ \E request \in inFlight : RequestFailed(request)
    \/ RetryConnection
    \/ PollTick
    \/ \E value \in TrafficValues : HandleTrafficSimulation(value)

SpecApp == Init /\ [][NextApp]_vars

PanelFiles == {file \in GeoJsonFiles : Len(file) = 4}
PanelWardLists == {ws \in WardLists : Len(ws) >= 1}

DetailsRequests == {request \in inFlight : request.url = "/ward/"}

\* App while the user clicks features and leaderboard entries and closes
\* the panel, and details requests succeed or fail
NextPanel ==
    \/ \E file \in PanelFiles : GeoJsonResponse(file)
    \/ \E sts \in AppStationLists : StationsResponse(sts)
    \/ \E ws \in PanelWardLists, now \in Instants : WardsResponse(0, ws, now)
    \/ \E i \in DOMAIN style, now \in Instants : FeatureClick(i, now)
    \/ \E k \in 1..MaxWards : LeaderboardClick(k)
    \/ \E request \in DetailsRequests : WardDetailsResponse(request.id)
    \/ \E request \in DetailsRequests : RequestFailed(request)
    \/ closeDetailsPanel

SpecPanel == Init /\ [][NextPanel]_vars

LiveStationLists == {<<StationPool[1]>>}
LiveWardLists == {<<WardPool[1]>>}
LiveInstants == {1}

\* App's ward fetching while no request fails
NextLive ==
    \/ \E file \in AppFiles : GeoJsonResponse(file)
    \/ \E sts \in LiveStationLists : StationsResponse(sts)
    \/ \E reduction \in TrafficValues, ws \in LiveWardLists, now \in LiveInstants :
          WardsResponse(reduction, ws, now)
    \/ PollTick
    \/ \E value \in TrafficValues : HandleTrafficSimulation(value)

\* the request fetchWards(reduction) sent leaves inFlight: in NextLive, by
\* its response
Answered(reduction) ==
    /\ WardsRequest(reduction) \in inFlight
    /\ inFlight' = inFlight \ {WardsRequest(reduction)}

\* the interval keeps firing, and every request in flight is answered
SpecLive ==
    /\ Init
    /\ [][NextLive]_vars
    /\ WF_vars(PollTick)
    /\ \A reduction \in TrafficValues : WF_inFlight(Answered(reduction))

----------------------------------------------------------------------------
(* ReportModal: the form and the position requests *)

MaxPending == 2

IssueTypes == {"Burning", "Construction", "Industrial", "Traffic", "Other"}
Descriptions == {"", "smoke"}
Positions == {[lat |-> -500, lon |-> 1200], [lat |-> 300, lon |-> 900]}

\* useState({lat: 28.6139, lon: 77.2090, issue_type: 'Burning', description: ''})
InitialFormData ==
    [lat |-> -861, lon |-> 1090, issue_type |-> "Burning", description |-> ""]

\* 'Report Incident': setIsReportModalOpen(true) mounts the modal with a
\* fresh form
OpenReportModal ==
    /\ formData = Null
    /\ formData' = InitialFormData
    /\ locating' = {}
    /\ UNCHANGED <<wards, trafficReduction, selectedWard, stations, geoJsonData,
                   selectedFeatureId, style, layer, inFlight, wardsFor, appVars>>

\* onClose (and handleReportSubmit after a successful POST):
\* setIsReportModalOpen(false) unmounts the modal; a position that arrives
\* for the unmounted form changes nothing
CloseReportModal ==
    /\ formData # Null
    /\ formData' = Null
    /\ locating' = {}
    /\ UNCHANGED <<wards, trafficReduction, selectedWard, stations, geoJsonData,
                   selectedFeatureId, style, layer, inFlight, wardsFor, appVars>>

\* onChange of the select: setFormData({ ...formData, issue_type: value })
SetIssueType(value) ==
    /\ formData # Null
    /\ formData' = [formData EXCEPT !.issue_type = value]
    /\ UNCHANGED <<wards, trafficReduction, selectedWard, stations, geoJsonData,
                   selectedFeatureId, style, layer, inFlight, wardsFor, appVars, locating>>

\* onChange of the textarea: setFormData({ ...formData, description: value })
SetDescription(value) ==
    /\ formData # Null
    /\ formData' = [formData EXCEPT !.description = value]
    /\ UNCHANGED <<wards, trafficReduction, selectedWard, stations, geoJsonData,
                   selectedFeatureId, style, layer, inFlight, wardsFor, appVars, locating>>

\* 'Get Current Location': getCurrentPosition is handed a callback that
\* closes over the formData of the render the button was clicked in
GetCurrentLocation ==
    /\ formData # Null
    /\ Cardinality(locating) < MaxPending
    /\ locating' = locating \cup {formData}
    /\ UNCHANGED <<wards, trafficReduction, selectedWard, stations, geoJsonData,
                   selectedFeatureId, style, layer, inFlight, wardsFor, appVars, formData>>

\* the position arrives and the callback runs:
\* setFormData({ ...formData, lat: pos.coords.latitude, lon: pos.coords.longitude })
\* with the formData it closed over
PositionArrives(snapshot, pos) ==
    /\ formData # Null
    /\ snapshot \in locating
    /\ locating' = locating \ {snapshot}
    /\ formData' = [snapshot EXCEPT !.lat = pos.lat, !.lon = pos.lon]
    /\ UNCHANGED <<wards, trafficReduction, selectedWard, stations, geoJsonData,
                   selectedFeatureId, style, layer, inFlight, wardsFor, appVars>>

\* no position is obtained: no error callback was passed, nothing happens
PositionUnavailable(snapshot) ==
    /\ snapshot \in locating
    /\ locating' = locating \ {snapshot}
    /\ UNCHANGED <<wards, trafficReduction, selectedWard, stations, geoJsonData,
                   selectedFeatureId, style, layer, inFlight, wardsFor, appVars, formData>>

NextReport ==
    \/ OpenReportModal
    \/ CloseReportModal
    \/ \E value \in IssueTypes : SetIssueType(value)
    \/ \E value \in Descriptions : SetDescription(value)
    \/ GetCurrentLocation
    \/ \E snapshot \in locating, pos \in Positions : PositionArrives(snapshot, pos)
    \/ \E snapshot \in locating : PositionUnavailable(snapshot)

SpecReport == Init /\ [][NextReport]_vars

----------------------------------------------------------------------------
(* Properties *)

\* the features the mounted layer has bound without raising
Resolved ==
    IF layer.mounted THEN {i \in DOMAIN layer.bound : layer.bound[i] # Throw} ELSE {}

FeatureAt(i) == geoJsonData.features[i]

\* the places in ws whose stringified ward_no equals the stringified Ward_No
\* of the feature, when the feature has a Ward_No at all
EqualWards(feature, ws) ==
    LET wardNo == Prop(feature, "Ward_No")
    IN  IF wardNo = Undef THEN {}
        ELSE {k \in 1..Len(ws) : JsString(ws[k].ward_no) = JsString(wardNo)}

Least(S) == CHOOSE k \in S : \A j \in S : k <= j

\* C1: whenever the stringified Ward_No of a feature equals the stringified
\* ward_no of some ward of a non-empty list, findWardForFeature returns the
\* first such ward, for numeric and string Ward_No alike (0 included).
C1_EqualNumberReturnsFirstWard ==
    \A i \in Resolved :
        LET hits == EqualWards(FeatureAt(i), layer.wards)
        IN  hits # {} => layer.bound[i].ward = layer.wards[Least(hits)]

\* C2: a feature with no Ward_No, or whose stringified Ward_No equals no
\* ward's stringified ward_no, gets null; a ward that is returned always
\* carries the feature's number, so none is picked by name, position or
\* partial match.
C2_NoEqualNumberReturnsNull ==
    \A i \in Resolved :
        LET hits == EqualWards(FeatureAt(i), layer.wards)
            ward == layer.bound[i].ward
        IN  /\ hits = {} => ward = Null
            /\ ward # Null => \E k \in hits : ward = layer.wards[k]

\* a near miss ("00" against wards numbered 0) and a feature without Ward_No
\* are both bound to no ward while the list is not empty
C2_Witness ==
    /\ layer.mounted
    /\ Len(layer.wards) = 2
    /\ \E i \in Resolved :
          /\ Prop(FeatureAt(i), "Ward_No") = Str(<<48, 48>>)
          /\ layer.bound[i].ward = Null
    /\ \E i \in Resolved :
          /\ Prop(FeatureAt(i), "Ward_No") = Undef
          /\ layer.bound[i].ward = Null

\* the value a click handed to onWardClick is a synthesized placeholder
IsPlaceholder(w) == w # Null /\ w.dominant_source = "Estimated"

\* C3: for a feature that matches a ward, the aqi used for the style and for
\* the tooltip is the matched ward's aqi whatever trafficReduction and the
\* stations are, the tooltip is not marked estimated, and a click hands
\* onWardClick the matched record of the ward list itself.
C3_MatchedWardShownUnchanged ==
    /\ [](/\ \A i \in DOMAIN style :
                LET ward == findWardForFeature(FeatureAt(i), wards)
                IN  ward # Null => style[i] # Throw /\ style[i].aqi = ward.aqi
          /\ \A i \in Resolved :
                LET bound == layer.bound[i]
                IN  bound.ward # Null =>
                        /\ bound.aqi = bound.ward.aqi
                        /\ ~bound.isEstimated
                        /\ bound.color = getAqiHexColor(bound.ward.aqi))
    /\ [][\A i \in DOMAIN style, now \in Instants :
            (ClickFeature(i, now) /\ layer.bound[i].ward # Null) =>
                /\ selectedWard' = layer.bound[i].ward
                /\ \E k \in EqualWards(FeatureAt(i), layer.wards) :
                        selectedWard' = layer.wards[k]
                /\ ~IsPlaceholder(selectedWard')]_vars

\* a matched feature has been clicked while a scenario is active and stations
\* are loaded: style, tooltip and click all carry the ward's own 210
C3_Witness ==
    /\ trafficReduction = 50
    /\ Len(stations) = 2
    /\ layer.mounted
    /\ layer.trafficReduction = 50
    /\ selectedFeatureId = FeatureAt(1).id
    /\ selectedWard = WardPool[1]
    /\ style[1].aqi = Num(210)
    /\ layer.bound[1].aqi = Num(210)
    /\ layer.bound[1].ward = WardPool[1]

\* C4: for every unmatched feature the resolved aqi is the scenario
\* adjustment of the interpolator's result, also when that result is the
\* fixed 180 of an empty station list.  (The feature without centroid over a
\* non-empty station list is C5's case and is left out here.)
C4_AdjustedOnEveryPath ==
    \A i \in Resolved :
        LET centroid == getFeatureCentroid(FeatureAt(i))
            raw == IF Len(layer.stations) = 0 THEN Num(DEFAULT_AQI)
                   ELSE InterpolateRawAqi(layer.stations, centroid)
        IN  (layer.bound[i].ward = Null /\ (Len(layer.stations) = 0 \/ centroid # Null)) =>
                layer.bound[i].aqi = ApplyTrafficReduction(raw, layer.trafficReduction)

\* C5: an unmatched feature without centroid is interpolated at the fixed
\* point (28.7041, 77.1025), so over a non-empty station list its aqi is the
\* estimate at that point.
C5_AqiAtFallbackPoint ==
    \A i \in Resolved :
        (/\ layer.bound[i].ward = Null
         /\ getFeatureCentroid(FeatureAt(i)) = Null
         /\ Len(layer.stations) > 0) =>
            layer.bound[i].aqi =
                ApplyTrafficReduction(InterpolateRawAqi(layer.stations, DELHI_FALLBACK),
                                      layer.trafficReduction)

\* C6: when no station reports a defined value for the channel, the aqi is
\* the default 180 (seen here without scenario, trafficReduction = 0) and a
\* pollutant channel is null; never NaN, never 0.
C6_NoReadingGivesDefault ==
    /\ \A i \in Resolved :
          (/\ layer.bound[i].ward = Null
           /\ layer.trafficReduction = 0
           /\ \A k \in 1..Len(layer.stations) : ~IsNum(layer.stations[k].aqi)) =>
                layer.bound[i].aqi = Num(DEFAULT_AQI)
    /\ IsPlaceholder(selectedWard) =>
          \A key \in DOMAIN selectedWard.pollutants :
              (\A k \in 1..Len(stations) : stations[k][key] \in {Null, Undef}) =>
                    selectedWard.pollutants[key] = Null

\* max(d^2, 0.0001) for the station and the point, times the square of the
\* point's denominator
ClaimFloor(station, point) ==
    LET dLat == station.lat * point.den - point.lat
        dLon == station.lon * point.den - point.lon
    IN  Max(dLat * dLat + dLon * dLon, EPSILON * point.den * point.den)

RECURSIVE ClaimGcd(_, _, _, _)
ClaimGcd(sts, point, S, i) ==
    IF i = 0 THEN 0
    ELSE IF i \in S THEN Gcd(ClaimFloor(sts[i], point), ClaimGcd(sts, point, S, i - 1))
    ELSE ClaimGcd(sts, point, S, i - 1)

RECURSIVE ClaimLcm(_, _, _, _, _)
ClaimLcm(sts, point, S, g, i) ==
    IF i = 0 THEN 1
    ELSE IF i \in S
    THEN Lcm(ClaimFloor(sts[i], point) \div g, ClaimLcm(sts, point, S, g, i - 1))
    ELSE ClaimLcm(sts, point, S, g, i - 1)

\* the sum over the stations k in S of value_k / floor_k (value_k = 1 when
\* key is ""), times l / g
RECURSIVE ClaimSum(_, _, _, _, _, _, _)
ClaimSum(sts, point, S, g, l, key, i) ==
    IF i = 0 THEN 0
    ELSE ClaimSum(sts, point, S, g, l, key, i - 1)
         + (IF i \in S
            THEN (l \div (ClaimFloor(sts[i], point) \div g))
                 * (IF key = "" THEN 1 ELSE sts[i][key].v)
            ELSE 0)

\* a = round(sum(w_k * value_k) / sum(w_k)) over the stations k in S, with
\* w_k = 1 / max(d_k^2, 0.0001); halves round up
IsRoundedWeightedMean(a, sts, point, S, key) ==
    LET g == ClaimGcd(sts, point, S, Len(sts))
        l == ClaimLcm(sts, point, S, g, Len(sts))
        W == ClaimSum(sts, point, S, g, l, "", Len(sts))
        V == ClaimSum(sts, point, S, g, l, key, Len(sts))
    IN  2 * a * W <= 2 * V + W /\ 2 * V + W < 2 * (a + 1) * W

IsPoint(c) == c.t = "point"

AtDegrees(c, lat, lon) == c.lat = lat * c.den /\ c.lon = lon * c.den

\* C7: with trafficReduction 0 and at least one station (each with an aqi),
\* the aqi interpolated at the centroid p is round(sum(w_i * aqi_i) / sum(w_i)),
\* w_i = 1 / max(d_i^2, 0.0001); a single station yields its own value, and
\* stations (28.70, 77.10, 100) and (28.71, 77.11, 300) queried at
\* (28.705, 77.105) yield 200.
C7_AqiIsRoundedWeightedMean ==
    \A i \in Resolved :
        LET sts == layer.stations
            p == getFeatureCentroid(FeatureAt(i))
            aqi == layer.bound[i].aqi
        IN  (/\ layer.bound[i].ward = Null
             /\ layer.trafficReduction = 0
             /\ Len(sts) >= 1
             /\ \A k \in 1..Len(sts) : IsNum(sts[k].aqi)
             /\ IsPoint(p)) =>
                /\ IsNum(aqi)
                /\ IsRoundedWeightedMean(aqi.v, sts, p, 1..Len(sts), "aqi")
                /\ Len(sts) = 1 => aqi = sts[1].aqi
                /\ (/\ Len(sts) = 2
                    /\ sts[1].lat = 0 /\ sts[1].lon = 0 /\ sts[1].aqi = Num(100)
                    /\ sts[2].lat = 100 /\ sts[2].lon = 100 /\ sts[2].aqi = Num(300)
                    /\ AtDegrees(p, 50, 50)) => aqi = Num(200)

\* the two stations of the example are loaded without scenario: the feature
\* centred on (28.705, 77.105) shows 200, the one centred on the square ring,
\* 0.014 degrees from the second station, shows 168
C7_Witness ==
    /\ layer.mounted
    /\ layer.trafficReduction = 0
    /\ layer.stations = <<StationPool[1], StationPool[2]>>
    /\ Len(layer.bound) = 4
    /\ layer.bound[2].ward = Null /\ layer.bound[2].aqi = Num(200)
    /\ layer.bound[3].ward = Null /\ layer.bound[3].aqi = Num(168)

\* C8: the adjusted value of a raw value v under traffic reduction p is v
\* when p <= 0 and round(v * (1 - 0.40 * p / 100)) otherwise; 100 becomes
\* 100, 80 and 60 under p = 0, 50 and 100.
C8_ScenarioAdjustment ==
    \A i \in Resolved :
        LET sts == layer.stations
            c == getFeatureCentroid(FeatureAt(i))
            p == layer.trafficReduction
        IN  (/\ layer.bound[i].ward = Null
             /\ Len(sts) >= 1
             /\ \A k \in 1..Len(sts) : IsNum(sts[k].aqi)
             /\ IsPoint(c)) =>
                LET v == InterpolateRawAqi(sts, c).v
                    a == layer.bound[i].aqi.v
                IN  /\ IsNum(layer.bound[i].aqi)
                    /\ p <= 0 => a = v
                    /\ p > 0 => /\ 2000 * a <= 2 * v * (1000 - 4 * p) + 1000
                                /\ 2 * v * (1000 - 4 * p) + 1000 < 2000 * (a + 1)
                    /\ v = 100 => /\ p = 0 => a = 100
                                  /\ p = 50 => a = 80
                                  /\ p = 100 => a = 60

\* the single station of aqi 100 under full traffic reduction: 60 is shown
C8_Witness ==
    /\ layer.mounted
    /\ layer.trafficReduction = 100
    /\ layer.stations = <<StationPool[1]>>
    /\ \E i \in Resolved :
          /\ layer.bound[i].ward = Null
          /\ IsPoint(getFeatureCentroid(FeatureAt(i)))
          /\ layer.bound[i].aqi = Num(60)

\* the point the click handler interpolates the pollutants at
ClickPoint(feature) ==
    IF getFeatureCentroid(feature) = Null THEN DELHI_FALLBACK
    ELSE getFeatureCentroid(feature)

\* a click on feature i that builds a placeholder
PlaceholderClick(i, now) ==
    /\ ClickFeature(i, now)
    /\ layer.bound[i].ward = Null
    /\ getFeatureCentroid(FeatureAt(i)) # Throw

ClaimRing(geometry) ==
    IF geometry = Null THEN <<>>
    ELSE IF Len(geometry.coordinates) = 0 THEN <<>>
    ELSE IF geometry.type = "Polygon" THEN geometry.coordinates[1]
    ELSE IF Len(geometry.coordinates[1]) = 0 THEN <<>>
    ELSE geometry.coordinates[1][1]

RingSum(ring, k) ==
    LET F[i \in 0..Len(ring)] == IF i = 0 THEN 0 ELSE F[i - 1] + ring[i][k]
    IN  F[Len(ring)]

\* C10: for a feature with a non-empty ring the centroid is the mean of the
\* ring's latitudes and the mean of its longitudes, the ring being
\* coordinates[0] of a Polygon and coordinates[0][0] of a MultiPolygon; the
\* square ring [[0,0],[0,2],[2,2],[2,0]] gives {lat: 1, lon: 1}.  The
\* centroid is read off the placeholder of the clicked feature.
C10_CentroidIsVertexMean ==
    IsPlaceholder(selectedWard) =>
        \A i \in 1..Len(geoJsonData.features) :
            LET ring == ClaimRing(FeatureAt(i).geometry)
                c == selectedWard.coordinates
            IN  (FeatureAt(i).id = selectedWard.id /\ Len(ring) > 0) =>
                    /\ c.lat * Len(ring) = c.den * RingSum(ring, 2)
                    /\ c.lon * Len(ring) = c.den * RingSum(ring, 1)
                    /\ ring = SquareRing => AtDegrees(c, 1, 1)

\* the feature with the square ring has been clicked: its placeholder is at (1, 1)
C10_Witness ==
    /\ IsPlaceholder(selectedWard)
    /\ selectedWard.id = Str(<<119, 51>>)
    /\ ClaimRing(FeatureAt(3).geometry) = SquareRing
    /\ AtDegrees(selectedWard.coordinates, 1, 1)

\* C11: getFeatureCentroid returns null, without raising, for every feature
\* whose geometry is absent or whose selected ring is empty or missing, a
\* Polygon or MultiPolygon with an empty coordinates array included.
C11_NoRingGivesNull ==
    geoJsonData # Null =>
        \A i \in 1..Len(geoJsonData.features) :
            Len(ClaimRing(FeatureAt(i).geometry)) = 0 =>
                getFeatureCentroid(FeatureAt(i)) = Null

\* C12: resolving a feature never raises: every style computation and every
\* tooltip binding returns, and every click ends in the matched ward or in a
\* placeholder of the clicked feature.
C12_ResolutionNeverRaises ==
    [][/\ \A i \in DOMAIN style' : style'[i] # Throw
       /\ layer'.mounted => \A i \in 1..Len(layer'.bound) : layer'.bound[i] # Throw
       /\ \A i \in DOMAIN style, now \in Instants :
            ClickFeature(i, now) =>
                \/ layer.bound[i].ward # Null /\ selectedWard' = layer.bound[i].ward
                \/ /\ IsPlaceholder(selectedWard')
                   /\ selectedWard'.id = FeatureAt(i).id
                   /\ selectedWard'.last_updated = now]_vars

\* the fields of a placeholder other than the pollutant values
BreakdownSum(b) ==
    b.traffic + b.industrial + b.construction_dust + b.biomass_burning + b.other

IsDefined(x) == x \notin {Undef, Null, NaN}

\* C13: every placeholder has id, name, ward_no, a finite aqi,
\* dominant_source, the fixed pollution_breakdown summing to 100,
\* recommendations, coordinates, population, area_sqkm, trend 'Stable' and
\* last_updated, whatever the stations (also stations without aqi) and the
\* feature's properties are.
C13_PlaceholderFullyPopulated ==
    IsPlaceholder(selectedWard) =>
        /\ IsDefined(selectedWard.id)
        /\ IsDefined(selectedWard.name)
        /\ IsDefined(selectedWard.ward_no)
        /\ IsNum(selectedWard.aqi)
        /\ selectedWard.dominant_source = "Estimated"
        /\ selectedWard.pollution_breakdown =
              [traffic |-> 30, industrial |-> 20, construction_dust |-> 20,
               biomass_burning |-> 15, other |-> 15]
        /\ BreakdownSum(selectedWard.pollution_breakdown) = 100
        /\ Len(selectedWard.recommendations) > 0
        /\ IsPoint(selectedWard.coordinates)
        /\ selectedWard.population \in Nat
        /\ selectedWard.area_sqkm \in Nat
        /\ selectedWard.trend = "Stable"
        /\ selectedWard.last_updated \in Instants

\* the ward-number string of a feature: '0' when Ward_No is absent
ClaimWardNoString(feature) ==
    IF Prop(feature, "Ward_No") \in {Undef, Null} THEN <<48>>
    ELSE JsString(Prop(feature, "Ward_No"))

ClaimCodeSum(str) ==
    LET F[i \in 0..Len(str)] == IF i = 0 THEN 0 ELSE F[i - 1] + str[i]
    IN  F[Len(str)]

\* C14: with h the sum of the character codes of the ward-number string,
\* population = 80000 + (h * 1234) mod 400000 and area_sqkm is
\* 2.5 + (h * 0.17) mod 12 rounded to one decimal (here in tenths, the
\* remainder in hundredths); so 80000 <= population < 480000 and
\* 2.5 <= area_sqkm <= 14.5, and both are functions of the string alone.
C14_PopulationAndAreaFromHash ==
    IsPlaceholder(selectedWard) =>
        \A i \in 1..Len(geoJsonData.features) :
            FeatureAt(i).id = selectedWard.id =>
                LET h == ClaimCodeSum(ClaimWardNoString(FeatureAt(i)))
                    hundredths == 250 + ((h * 17) % 1200)
                    area == selectedWard.area_sqkm
                IN  /\ selectedWard.population = 80000 + ((h * 1234) % 400000)
                    /\ 10 * area <= hundredths + 5
                    /\ hundredths + 5 < 10 * (area + 1)
                    /\ 80000 <= selectedWard.population
                    /\ selectedWard.population < 480000
                    /\ 25 <= area /\ area <= 145

\* the feature numbered with the number 0 has been clicked: h is 48, the
\* code of '0', the population 80000 + 59232 and the area 10.66 -> 10.7
C14_Witness ==
    /\ IsPlaceholder(selectedWard)
    /\ selectedWard.id = Str(<<119, 51>>)
    /\ Prop(FeatureAt(3), "Ward_No") = Num(0)
    /\ selectedWard.population = 139232
    /\ selectedWard.area_sqkm = 107

\* a resolution result with its generation timestamp left out
WithoutTime(w) == IF IsPlaceholder(w) THEN [w EXCEPT !.last_updated = 0] ELSE w

\* C15: resolving the same feature twice with unchanged stations, wards and
\* trafficReduction gives results equal in every field but last_updated.
\* The first resolution is a click on the feature, the second the click on
\* it that would follow at once, at any instant.
C15_SecondResolutionIdentical ==
    [][\A i \in DOMAIN style, now \in Instants, later \in Instants :
        (/\ ClickFeature(i, now)
         /\ ClickOutcome(FeatureAt(i), layer.bound[i], layer.stations, now) # Throw
         /\ layer'.bound[i] # Throw) =>
            WithoutTime(ClickOutcome(FeatureAt(i), layer'.bound[i], layer'.stations,
                                     later))
                = WithoutTime(selectedWard')]_vars

\* C16: after any sequence of slider changes, ward refreshes and station
\* loads, the aqi in the tooltip of an unmatched feature, and the aqi of the
\* placeholder a click on it builds, is the value computed from the current
\* stations and the current trafficReduction.
C16_ShownAqiIsCurrent ==
    [][/\ layer'.mounted =>
            \A i \in 1..Len(layer'.bound) :
                LET feature == geoJsonData'.features[i]
                    bound == layer'.bound[i]
                IN  (/\ bound # Throw
                     /\ bound.ward = Null
                     /\ findWardForFeature(feature, wards') = Null) =>
                        bound.aqi = getInterpolatedAqi(feature, stations', trafficReduction')
       /\ \A i \in DOMAIN style, now \in Instants :
            (/\ ClickFeature(i, now)
             /\ IsPlaceholder(selectedWard')
             /\ selectedWard'.id = FeatureAt(i).id
             /\ selectedWard'.last_updated = now) =>
                selectedWard'.aqi =
                    getInterpolatedAqi(FeatureAt(i), stations, trafficReduction)]_vars

\* C17: on every poll tick both the ward list and the station list are
\* requested again, and each successful response replaces the list it
\* answers wholesale.
C17_PollRefetchesBothLists ==
    [][/\ PollTick =>
            /\ WardsRequest(trafficReduction) \in inFlight'
            /\ StationsRequest \in inFlight'
       /\ \A reduction \in TrafficValues, ws \in AppWardLists, now \in Instants :
            WardsResponse(reduction, ws, now) => wards' = ws
       /\ \A sts \in AppStationLists :
            StationsResponse(sts) => stations' = sts]_vars

\* C18: whenever the ward layer is shown, the ward list App holds answers a
\* request made for the trafficReduction that MapView applies to the
\* interpolated features.
C18_WardsAnswerCurrentScenario ==
    layer.mounted => wardsFor = Num(trafficReduction)

\* the station lists holding the stations of sts in every order
Reorderings(sts) ==
    {[k \in 1..Len(sts) |-> sts[f[k]]] :
        f \in {g \in [1..Len(sts) -> 1..Len(sts)] :
                 \A a, b \in 1..Len(sts) : g[a] = g[b] => a = b}}

MaxAqi == 310

\* the breakpoint table: the bands' inclusive upper bounds, colours and labels
ClaimBand(n) ==
    IF n <= 50 THEN 1 ELSE IF n <= 100 THEN 2 ELSE IF n <= 150 THEN 3
    ELSE IF n <= 200 THEN 4 ELSE IF n <= 300 THEN 5 ELSE 6

ClaimColours == <<"#22c55e", "#eab308", "#f97316", "#ef4444", "#a855f7", "#881337">>

ClaimLabels == <<"Good", "Satisfactory", "Moderate", "Poor", "Very Poor", "Severe">>

\* the aqi values on screen: of the features' styles, of the ward list (the
\* sidebar's leaderboard) and of the selected ward (the details panel)
ShownAqis ==
    {style[i].aqi : i \in {j \in DOMAIN style : style[j] # Throw}}
        \cup {wards[k].aqi : k \in 1..Len(wards)}
        \cup (IF selectedWard = Null THEN {} ELSE {selectedWard.aqi})

C21_EstimatedIffUnmatched ==
    /\ [](\A i \in Resolved :
            LET bound == layer.bound[i]
                found == findWardForFeature(FeatureAt(i), layer.wards)
            IN  /\ bound.isEstimated <=> found = Null
                /\ bound.sourceLabel # "" <=> found # Null
                /\ found # Null => bound.sourceLabel = found.dominant_source)
    /\ [][\A i \in DOMAIN style, now \in Instants :
            (/\ ClickFeature(i, now)
             /\ ClickOutcome(FeatureAt(i), layer.bound[i], layer.stations, now) # Throw) =>
                (IsPlaceholder(selectedWard')
                    <=> findWardForFeature(FeatureAt(i), layer.wards) = Null)]_vars

\* over a non-empty ward list one feature's tooltip shows 'Traffic' and no
\* mark, another's is marked estimated, and the marked one has been clicked
C21_Witness ==
    /\ IsPlaceholder(selectedWard)
    /\ \E i \in Resolved :
          /\ layer.bound[i].isEstimated
          /\ layer.bound[i].sourceLabel = ""
          /\ selectedFeatureId = FeatureAt(i).id
          /\ selectedWard.id = FeatureAt(i).id
    /\ \E j \in Resolved :
          /\ ~layer.bound[j].isEstimated
          /\ layer.bound[j].sourceLabel = "Traffic"

\* the stations whose reading for key enters the pollutant mean
Reporting(sts, key) == {k \in 1..Len(sts) : IsNum(sts[k][key]) /\ sts[k][key].v > 0}

\* a (in hundredths) is a whole number, the weighted mean over S rounded to
\* the nearest integer
IsWholeRoundedWeightedMean(a, sts, point, S, key) ==
    LET g == ClaimGcd(sts, point, S, Len(sts))
        l == ClaimLcm(sts, point, S, g, Len(sts))
        W == ClaimSum(sts, point, S, g, l, "", Len(sts))
        V == ClaimSum(sts, point, S, g, l, key, Len(sts))
    IN  /\ a % 100 = 0
        /\ 2 * a * W <= 2 * V + 100 * W
        /\ 2 * V + 100 * W < 2 * (a + 100) * W

\* C24 as stated: every present interpolated pollutant value is the weighted
\* mean rounded to the nearest integer, the formula of the AQI result.
C24_PollutantsRoundedToInteger ==
    [][\A i \in DOMAIN style, now \in Instants :
        PlaceholderClick(i, now) =>
            \A key \in DOMAIN selectedWard'.pollutants :
                LET value == selectedWard'.pollutants[key]
                IN  value # Null =>
                        IsWholeRoundedWeightedMean(value.v, layer.stations,
                                                   ClickPoint(FeatureAt(i)),
                                                   Reporting(layer.stations, key), key)]_vars

\* C24 as amended: every present interpolated pollutant value is the
\* weighted mean rounded to two decimal places; the AQI of the same
\* placeholder (no scenario, every station with an aqi) is the weighted mean
\* rounded to the nearest integer.
C24_PollutantsRoundedToHundredths ==
    [][\A i \in DOMAIN style, now \in Instants :
        PlaceholderClick(i, now) =>
            /\ \A key \in DOMAIN selectedWard'.pollutants :
                  LET value == selectedWard'.pollutants[key]
                  IN  value # Null =>
                          IsRoundedWeightedMean(value.v, layer.stations,
                                                ClickPoint(FeatureAt(i)),
                                                Reporting(layer.stations, key), key)
            /\ (/\ layer.trafficReduction = 0
                /\ Len(layer.stations) >= 1
                /\ \A k \in 1..Len(layer.stations) : IsNum(layer.stations[k].aqi)
                /\ IsPoint(getFeatureCentroid(FeatureAt(i)))) =>
                    IsRoundedWeightedMean(selectedWard'.aqi.v, layer.stations,
                                          ClickPoint(FeatureAt(i)),
                                          1..Len(layer.stations), "aqi")]_vars

\* the feature half-way between a station reporting pm25 40.00 and one
\* reporting 90.50 has been clicked: its placeholder holds 65.25
C24_Witness ==
    /\ IsPlaceholder(selectedWard)
    /\ stations = <<StationPool[1], StationPool[2]>>
    /\ selectedWard.pollutants.pm25 = Num(6525)
    /\ selectedWard.aqi = Num(200)

\* the least and the greatest aqi of a station list
MinAqi(sts) ==
    CHOOSE a \in {sts[k].aqi.v : k \in 1..Len(sts)} : \A k \in 1..Len(sts) : a <= sts[k].aqi.v

MaxStationAqi(sts) ==
    CHOOSE a \in {sts[k].aqi.v : k \in 1..Len(sts)} : \A k \in 1..Len(sts) : a >= sts[k].aqi.v

\* C29: over a non-empty station list whose aqi values are all defined
\* (whole index values), the raw interpolated aqi at every query point lies
\* between the least and the greatest station aqi; for every p in 0..100 the
\* adjusted aqi lies between round(0.6 * least) and the greatest, and it never
\* rises with p.  The aqi an unmatched feature is shown with is that
\* adjusted value.
C29_WithinStationRange ==
    \A i \in Resolved :
        LET sts == layer.stations
            c == getFeatureCentroid(FeatureAt(i))
        IN  (/\ Len(sts) >= 1
             /\ \A k \in 1..Len(sts) : IsNum(sts[k].aqi)
             /\ c # Throw) =>
                LET raw == InterpolateRawAqi(sts, ClickPoint(FeatureAt(i)))
                    lo == MinAqi(sts)
                    hi == MaxStationAqi(sts)
                IN  /\ IsNum(raw)
                    /\ lo <= raw.v /\ raw.v <= hi
                    /\ \A p \in 0..100 :
                          /\ RoundDiv(6 * lo, 10) <= ApplyTrafficReduction(raw, p).v
                          /\ ApplyTrafficReduction(raw, p).v <= hi
                    /\ \A p \in 0..99 :
                          ApplyTrafficReduction(raw, p + 1).v <= ApplyTrafficReduction(raw, p).v
                    /\ (layer.bound[i].ward = Null /\ IsPoint(c)) =>
                          layer.bound[i].aqi = ApplyTrafficReduction(raw, layer.trafficReduction)

\* stations of aqi 100 and 300 under full traffic reduction: the feature
\* whose raw value is 168 is shown with 101, between 60 and 300
C29_Witness ==
    /\ layer.mounted
    /\ layer.trafficReduction = 100
    /\ layer.stations = <<StationPool[1], StationPool[2]>>
    /\ Len(layer.bound) = 4
    /\ layer.bound[3].ward = Null
    /\ InterpolateRawAqi(layer.stations, getFeatureCentroid(FeatureAt(3))) = Num(168)
    /\ layer.bound[3].aqi = Num(101)
    /\ MinAqi(layer.stations) = 100 /\ MaxStationAqi(layer.stations) = 300

\* C22: every click on an unmatched feature makes App store the placeholder
\* as wardDetails at once and send no /ward/{id} request, whether the
\* feature came with an id of its own or was given 'feature-<index>'.
C22_PlaceholderIsItsOwnDetails ==
    [][\A i \in DOMAIN style, now \in Instants :
        (/\ FeatureClick(i, now)
         /\ layer.bound[i].ward = Null
         /\ getFeatureCentroid(FeatureAt(i)) # Throw) =>
            /\ IsPlaceholder(selectedWard')
            /\ wardDetails' = selectedWard'
            /\ inFlight' = inFlight]_vars

\* the features drawn with the selected style
Highlighted == {i \in DOMAIN style : style[i] # Throw /\ style[i].weight = 3}

\* C23: at most one feature is drawn with the selected style; it is the
\* feature whose click produced the selected ward (the placeholder carries
\* its id, a matched ward its number); and none is drawn so while
\* selectedWard is null.
C23_OnlyClickedFeatureHighlighted ==
    /\ Cardinality(Highlighted) <= 1
    /\ selectedWard = Null => Highlighted = {}
    /\ \A i \in Highlighted :
          /\ selectedWard # Null
          /\ IF IsPlaceholder(selectedWard)
             THEN selectedWard.id = FeatureAt(i).id
             ELSE EqualWards(FeatureAt(i), <<selectedWard>>) # {}

\* C25: whenever wardDetails is non-null, it is the details of the ward that
\* is selected now: selectedWard is non-null and has the same id.
C25_DetailsOfSelectedWard ==
    wardDetails # Null => (selectedWard # Null /\ wardDetails.id = selectedWard.id)

WardsInFlight == {request \in inFlight : IsWardsRequest(request)}

\* C26: once no fetchWards request is in flight, the ward list held is the
\* response to the request issued last.  (While no request fails, the slider
\* and the interval are the only issuers and both ask for the current
\* trafficReduction, so the request issued last is the one for it.)
C26_LastRequestWins ==
    WardsInFlight = {} => wardsFor = Num(trafficReduction)

\* C27: if the slider stops moving (and no request fails), then eventually
\* the ward list answers the current trafficReduction and does so from then
\* on.
C27_EventuallyCurrentScenario ==
    <>[][\A value \in TrafficValues : ~HandleTrafficSimulation(value)]_vars
        => <>[](wardsFor = Num(trafficReduction))

\* the slider has been moved to 50 and the list for 50 has arrived, with no
\* request left in flight
C27_Witness ==
    /\ trafficReduction = 50
    /\ wardsFor = Num(50)
    /\ Len(wards) > 0
    /\ WardsInFlight = {}

\* a fetchWards request completes in this step
WardsFetchFails == \E request \in WardsInFlight : RequestFailed(request)

WardsFetchSucceeds ==
    \E request \in WardsInFlight, ws \in AppWardLists, now \in Instants :
        WardsResponse(request.reduction, ws, now)

\* C28 as stated: a failed fetchWards leaves wards and lastUpdated as they
\* are and sets error, a successful one clears error, either leaves isLoading
\* false; error is non-null exactly when the fetch completed last failed, that
\* is, nothing but a completing fetch changes error.
C28_ErrorIffLastFetchFailed ==
    [][/\ WardsFetchFails =>
            /\ wards' = wards /\ lastUpdated' = lastUpdated
            /\ error' # Null /\ ~isLoading'
       /\ WardsFetchSucceeds => error' = Null /\ ~isLoading' /\ lastUpdated' # Null
       /\ ~(WardsFetchFails \/ WardsFetchSucceeds) => error' = error]_vars

\* C28 as amended: the effects of a failed and of a successful fetchWards are
\* as stated; besides them 'Retry Connection' clears error (and sets
\* isLoading) before its request completes, and nothing else changes error.
C28_ErrorTracksFetchAndRetry ==
    [][/\ WardsFetchFails =>
            /\ wards' = wards /\ lastUpdated' = lastUpdated
            /\ error' # Null /\ ~isLoading'
       /\ WardsFetchSucceeds => error' = Null /\ ~isLoading' /\ lastUpdated' # Null
       /\ RetryConnection => error' = Null /\ isLoading' /\ WardsRequest(0) \in inFlight'
       /\ ~(WardsFetchFails \/ WardsFetchSucceeds \/ RetryConnection) => error' = error]_vars

\* a fetch has failed after an earlier one succeeded: the list and the time
\* of the success are kept, the error is shown, nothing is loading
C28_Witness ==
    /\ error # Null
    /\ ~isLoading
    /\ Len(wards) > 0
    /\ lastUpdated # Null
    /\ wardsFor # Null

\* C30: the geolocation callback changes only lat and lon of the form;
\* issue_type and description keep the values they have when it runs.
C30_PositionChangesOnlyCoordinates ==
    [][\A snapshot \in locating, pos \in Positions :
        PositionArrives(snapshot, pos) =>
            /\ formData'.lat = pos.lat
            /\ formData'.lon = pos.lon
            /\ formData'.issue_type = formData.issue_type
            /\ formData'.description = formData.description]_vars

====
